---- MODULE Spec2Model ----
(***************************************************************************)
(* Model of src/main.py (ffmpeg-screenshot): one run of                    *)
(* generate_screenshots(args) on one media file.                           *)
(*                                                                         *)
(* Times are kept as integers in units of 1/Den second: a literal time     *)
(* of s seconds is s*Den, and a chapter time or the duration of t units    *)
(* stands for the double nearest to t/Den.  Strings that the program       *)
(* parses (the literal time texts) are sequences of one-character strings  *)
(* over the alphabet digits, ":", "+", "-" and letters.                    *)
(***************************************************************************)
EXTENDS Integers, Sequences, FiniteSets

(* ---------------------------- bounds ----------------------------------- *)
Den == 3
MaxSec == 3
MaxInterval == 2
MaxChapters == 2

(* ----------------------- Python value helpers -------------------------- *)
\* A Python value that is an int/float, None, or a raised exception.
Ok(v) == [kind |-> "ok", val |-> v]
NoneV == [kind |-> "None", val |-> 0]
Raise(e) == [kind |-> e, val |-> 0]
IsOk(r) == r.kind = "ok"
IsNone(r) == r.kind = "None"
IsRaise(r) == r.kind \notin {"ok", "None"}

\* An optional string argument (None or a str).
NoneS == [kind |-> "None", val |-> ""]
SomeS(s) == [kind |-> "ok", val |-> s]
\* An optional text argument (None or a str kept as characters).
NoneT == [kind |-> "None", val |-> <<>>]
SomeT(s) == [kind |-> "ok", val |-> s]

\* Python truthiness of an optional int / optional str.
TruthyInt(n) == n.kind = "ok" /\ n.val # 0
TruthyStr(s) == s.kind = "ok" /\ s.val # ""
TruthyText(s) == s.kind = "ok" /\ s.val # <<>>

(* --------------------------- arithmetic -------------------------------- *)
\* floor(a / b) and ceil(a / b) of the exact quotient, b # 0.
FloorDiv(a, b) == IF b > 0 THEN a \div b ELSE (-a) \div (-b)
CeilDiv(a, b) == -FloorDiv(-a, b)

\* math.ceil / math.floor of a time held in units, giving whole seconds.
ceil(t) == CeilDiv(t, Den)
floor(t) == FloorDiv(t, Den)

(* ------------------------------ str(int) ------------------------------- *)
DigitChars == <<"0", "1", "2", "3", "4", "5", "6", "7", "8", "9">>
Digits == {DigitChars[i] : i \in 1..10}
DigitVal(c) == CHOOSE d \in 0..9 : DigitChars[d + 1] = c

RECURSIVE NatStr(_)
NatStr(n) == IF n < 10 THEN <<DigitChars[n + 1]>>
             ELSE NatStr(n \div 10) \o <<DigitChars[(n % 10) + 1]>>
\* str(n) for an int.
str(n) == IF n < 0 THEN <<"-">> \o NatStr(-n) ELSE NatStr(n)

RECURSIVE zfill(_, _)
\* s.zfill(width) for a string without sign.
zfill(s, width) == IF Len(s) >= width THEN s ELSE zfill(<<"0">> \o s, width)

(* ------------------------------ int(str) ------------------------------- *)
RECURSIVE DigitsVal(_)
DigitsVal(s) == IF s = <<>> THEN 0
                ELSE 10 * DigitsVal(SubSeq(s, 1, Len(s) - 1)) + DigitVal(s[Len(s)])
AllDigits(s) == s # <<>> /\ \A i \in 1..Len(s) : s[i] \in Digits

\* int(s) over the model's alphabet: optional sign, then one or more digits.
PyInt(s) ==
    IF AllDigits(s) THEN Ok(DigitsVal(s))
    ELSE IF s # <<>> /\ s[1] \in {"+", "-"} /\ AllDigits(Tail(s))
         THEN Ok((IF s[1] = "-" THEN -1 ELSE 1) * DigitsVal(Tail(s)))
         ELSE Raise("ValueError")

(* ------------------------------ parse_time ----------------------------- *)
\* re.match(r"^([0-9]{2}:){2}[0-9]{2}$", s)
IsClock(s) ==
    /\ Len(s) = 8
    /\ \A i \in {1, 2, 4, 5, 7, 8} : s[i] \in Digits
    /\ s[3] = ":" /\ s[6] = ":"

\* parse_time(time_str): whole seconds, or the exception int() raises.
parse_time(s) ==
    IF IsClock(s)
    THEN Ok(DigitsVal(SubSeq(s, 1, 2)) * 3600 + DigitsVal(SubSeq(s, 4, 5)) * 60
            + DigitsVal(SubSeq(s, 7, 8)))
    ELSE PyInt(s)

(* --------------------------- get_chapter_time -------------------------- *)
\* chapters[i] with Python's index rules (i is 0-based, negative wraps).
PyIndex(chs, i) ==
    IF 0 <= i /\ i < Len(chs) THEN Ok(i + 1)
    ELSE IF i < 0 /\ Len(chs) + i >= 0 THEN Ok(Len(chs) + i + 1)
    ELSE Raise("IndexError")

RECURSIVE ScanTitle(_, _, _, _)
\* the for loop of get_chapter_time, from chapter i on
ScanTitle(chs, i, name, key) ==
    IF i > Len(chs) THEN NoneV
    ELSE IF ~chs[i].has_tags \/ ~chs[i].has_title THEN Raise("KeyError")
    ELSE IF chs[i].title = name THEN Ok(chs[i][key])
    ELSE ScanTitle(chs, i + 1, name, key)

get_chapter_time(chs, chapter_num, chapter_name, key) ==
    IF TruthyInt(chapter_num)
    THEN LET p == PyIndex(chs, chapter_num.val - 1)
         IN IF IsOk(p) THEN Ok(chs[p.val][key]) ELSE p
    ELSE IF TruthyStr(chapter_name)
    THEN ScanTitle(chs, 1, chapter_name.val, key)
    ELSE NoneV

(* ------------------------------- range --------------------------------- *)
\* len(range(a, b, step)), step # 0
RangeLen(a, b, step) ==
    IF step > 0 THEN (IF a < b THEN CeilDiv(b - a, step) ELSE 0)
    ELSE (IF a > b THEN CeilDiv(a - b, -step) ELSE 0)
\* list(range(a, b, step))
range(a, b, step) == [k \in 1..RangeLen(a, b, step) |-> a + (k - 1) * step]

(* --------------------- lines 83-84 and 96: the schedule ---------------- *)
\* A time of t units is the double nearest to t/Den.  The operators below
\* carry its rounding error exactly, as a multiple of 2^-(MantBits+Shift)/Den.
MantBits == 52
Shift == Den + 2
RECURSIVE Pow2(_)
Pow2(n) == IF n = 0 THEN 1 ELSE 2 * Pow2(n - 1)
RECURSIVE Pow2Mod(_, _)
Pow2Mod(n, m) == IF n = 0 THEN 1 % m ELSE (2 * Pow2Mod(n - 1, m)) % m
RECURSIVE Exp2(_, _)
\* the binary exponent of a/b > 0: the E with 2^E <= a/b < 2^(E+1)
Exp2(a, b) == IF a >= 2 * b THEN 1 + Exp2(a, 2 * b)
              ELSE IF a < b THEN Exp2(2 * a, b) - 1
              ELSE 0
Abs(n) == IF n < 0 THEN -n ELSE n
IsPow2(n) == \E k \in 0..30 : Pow2(k) = n
\* float(t/Den) - t/Den, scaled: round-to-nearest of the 53-bit mantissa
FloatErr(t) ==
    IF t = 0 THEN 0
    ELSE LET E == Exp2(Abs(t), Den)
             r == (Abs(t) * Pow2Mod(MantBits - E, Den)) % Den
             c == IF 2 * r < Den THEN -r ELSE Den - r
         IN (IF t > 0 THEN 1 ELSE -1) * c * Pow2(E + Shift)
\* half the distance from the integer n # 0 to the next double above it, scaled
HalfGapAbove(n) ==
    IF n > 0 \/ ~IsPow2(-n) THEN Den * Pow2(Shift + Exp2(Abs(n), 1) - 1)
    ELSE Den * Pow2(Shift + Exp2(Abs(n), 1) - 2)
\* The double quotient (end - start) / interval lies just above the exact one:
\* the exact quotient is whole, and the subtraction of the two doubles rounds
\* to a value on the far side of the whole difference.
QuotientRoundsAbove(start, end, interval) ==
    /\ end # start
    /\ (end - start) % (Abs(interval) * Den) = 0
    /\ LET sg == IF interval > 0 THEN 1 ELSE -1
       IN sg * (FloatErr(end) - FloatErr(start)) > HalfGapAbove(sg * ((end - start) \div Den))

\* (variant: the quotient rounded down)
MaxCount_Floor(start, end, interval) == FloorDiv(end - start, interval * Den)
\* (variant: both end points counted)
MaxCount_PlusOne(start, end, interval) ==
    CeilDiv(end - start, interval * Den)
        + (IF QuotientRoundsAbove(start, end, interval) THEN 1 ELSE 0) + 1
\* max_count = math.ceil((end_time - start_time) / args.interval), in doubles
MaxCount(start, end, interval) ==
    CeilDiv(end - start, interval * Den)
        + (IF QuotientRoundsAbove(start, end, interval) THEN 1 ELSE 0)
\* (variant: the start rounded down)
Schedule_FloorStart(start, end, interval) == range(floor(start), floor(end), interval)
\* range(math.ceil(start_time), math.floor(end_time), args.interval)
Schedule(start, end, interval) == range(ceil(start), floor(end), interval)

\* out_file without the stem and the ".png" suffix (line 105)
out_file(cnt, maxc) == zfill(str(cnt), Len(str(maxc)))

(* ------------------------------- inputs -------------------------------- *)
Text0 == <<"0">>
Text2 == <<"2">>
TextClock == <<"0", "0", ":", "0", "0", ":", "0", "1">>
TextMinute == <<"0", "0", ":", "0", "1", ":", "0", "0">>
TextShortClock == <<"1", ":", "2", ":", "3">>
TextNeg == <<"-", "1">>
TextBad == <<"x">>

NoNum == NoneV
Chapter(s, e, tg) ==
    [start_time |-> s, end_time |-> e, has_tags |-> tg # "notags",
     has_title |-> tg \notin {"notags", "notitle"},
     title |-> IF tg \in {"notags", "notitle"} THEN "" ELSE tg]
TagKinds == {"notags", "notitle", "A", "B"}

\* Contiguous chapters of one second each, the first starting at `first`.
RECURSIVE TagSeqs(_)
TagSeqs(n) == IF n = 0 THEN {<<>>}
              ELSE {Append(t, k) : t \in TagSeqs(n - 1), k \in TagKinds}
ChaptersOf(first, tags) ==
    [i \in 1..Len(tags) |-> Chapter(first + (i - 1) * Den, first + i * Den, tags[i])]
ChapterLists ==
    {ChaptersOf(f, t) : f \in {0, 1}, t \in UNION {TagSeqs(n) : n \in 0..MaxChapters}}

Args(pr, sim, vb, int, st, sn, sname, et, en, ename) ==
    [print_chapters |-> pr, simulate |-> sim, verbose |-> vb, interval |-> int,
     start_time |-> st, start_chapter_number |-> sn, start_chapter_name |-> sname,
     end_time |-> et, end_chapter_number |-> en, end_chapter_name |-> ename]
Input(a, chs, dur) == [args |-> a, chapters |-> chs, duration |-> dur]

\* Whole runs on literal times: every flag, every interval sign.
RunInputs ==
    {Input(Args(pr, sim, vb, int, st, NoNum, NoneS, et, NoNum, NoneS), chs, dur) :
        pr \in BOOLEAN, sim \in BOOLEAN, vb \in BOOLEAN, int \in (-1)..MaxInterval,
        st \in {Text0, Text2, TextClock, TextBad},
        et \in {NoneT, SomeT(<<>>), SomeT(Text0), SomeT(Text2), SomeT(TextShortClock)},
        chs \in {<<>>, ChaptersOf(0, <<"A", "notitle">>), ChaptersOf(0, <<"A", "notags">>)},
        dur \in {1, MaxSec * Den}}

\* start_group (lines 18, 20-22): at most one of the three options is given;
\* --start-time defaults to "0".  <<start_time, number, name>>
StartGroup ==
    {<<st, NoNum, NoneS>> : st \in {Text0, Text2, TextMinute, TextNeg, TextBad}}
    \cup {<<Text0, Ok(n), NoneS>> : n \in (-1)..(MaxChapters + 1)}
    \cup {<<Text0, NoNum, SomeS(x)>> : x \in {"", "A", "B"}}
\* end_group (lines 19, 23-25): at most one of the three options is given.
\* <<end_time, number, name>>
EndGroup ==
    {<<et, NoNum, NoneS>> : et \in {NoneT, SomeT(Text2)}}
    \cup {<<NoneT, Ok(n), NoneS>> : n \in (-1)..(MaxChapters + 1)}
    \cup {<<NoneT, NoNum, SomeS(x)>> : x \in {"A", "B"}}

\* Range resolution: every accepted selector against every chapter list.
SelInputs ==
    {Input(Args(FALSE, sim, FALSE, 1, sg[1], sg[2], sg[3], eg[1], eg[2], eg[3]),
           chs, MaxSec * Den + 1) :
        sim \in BOOLEAN, sg \in StartGroup, eg \in EndGroup, chs \in ChapterLists}

\* Scheduling on fractional times: start and end of one chapter, or the duration.
SchedInputs ==
    {Input(Args(FALSE, sim, FALSE, int, Text0, sn, NoneS, NoneT, en, NoneS),
           <<Chapter(s, e, "A")>>, e) :
        sim \in BOOLEAN, int \in 1..MaxInterval,
        sn \in {NoNum, Ok(1)}, en \in {NoNum, Ok(1)},
        s \in 0..(MaxSec * Den), e \in 1..(MaxSec * Den + 1)}

\* The namespaces parser.parse_args() returns (lines 131-133).
Inputs == RunInputs \cup SelInputs \cup SchedInputs

(* -------------------------------- state -------------------------------- *)
VARIABLES
    args,        \* the argparse namespace passed to generate_screenshots
    media,       \* what the prober reports for in_file: chapters, duration
    pc,          \* position in generate_screenshots
    chapters,    \* probe.get("chapters", [])
    duration,    \* float(probe["format"]["duration"])
    stdout,      \* the chapter lines printed by --print-chapters
    report,      \* the verbose/simulate header (lines 86-92), if printed
    stderr,      \* the diagnostic printed by an except clause
    dirCreated,  \* ensure_directory(out_path) has run
    start_time, end_time, max_count,
    rng,         \* the range object the for loop iterates
    visited,     \* the timestamps the loop has yielded so far
    calls,       \* the extraction calls issued: [ss, out]
    files,       \* the image files written
    exit_code    \* the process exit status, once exited

vars == <<args, media, pc, chapters, duration, stdout, report, stderr, dirCreated,
          start_time, end_time, max_count, rng, visited, calls, files, exit_code>>

Init ==
    /\ \E in \in Inputs :
        /\ args = in.args
        /\ media = [chapters |-> in.chapters, duration |-> in.duration]
    /\ pc = "probe"
    /\ chapters = <<>>
    /\ duration = 0
    /\ stdout = <<>>
    /\ report = NoneV
    /\ stderr = [prefix |-> "", exc |-> ""]
    /\ dirCreated = FALSE
    /\ start_time = NoneV
    /\ end_time = NoneV
    /\ max_count = 0
    /\ rng = <<>>
    /\ visited = <<>>
    /\ calls = <<>>
    /\ files = {}
    /\ exit_code = NoneV

(* ------------------------------- exits --------------------------------- *)
\* sys.exit(code): nothing else changes any more.
Exit(code, prefix, exc) ==
    /\ pc' = "exit"
    /\ exit_code' = Ok(code)
    /\ stderr' = [prefix |-> prefix, exc |-> exc]

\* except ffmpeg.Error (lines 123-125) / except Exception (lines 126-128)
\* exc is the class of the exception whose text follows the prefix.
ExceptFfmpeg == Exit(1, "ffmpeg error", "ffmpeg.Error")
ExceptException(exc) == Exit(1, "Unexpected error", exc)

(* ------------------------------- actions ------------------------------- *)
\* lines 56-60: the probe succeeds
Probe ==
    /\ pc = "probe"
    /\ chapters' = media.chapters
    /\ duration' = media.duration
    /\ pc' = IF args.print_chapters THEN "print" ELSE "mkdir"
    /\ UNCHANGED <<args, media, stdout, report, stderr, dirCreated, start_time, end_time,
                   max_count, rng, visited, calls, files, exit_code>>

\* line 57: ffmpeg.probe raises ffmpeg.Error
ProbeFails ==
    /\ pc = "probe"
    /\ ExceptFfmpeg
    /\ UNCHANGED <<args, media, chapters, duration, stdout, report, dirCreated, start_time,
                   end_time, max_count, rng, visited, calls, files>>

\* lines 63-64: one iteration of the --print-chapters loop
ShowChapter ==
    /\ pc = "print"
    /\ Len(stdout) < Len(chapters)
    /\ LET idx == Len(stdout) + 1
           chapter == chapters[idx]
       IN IF chapter.has_tags
          THEN /\ stdout' = Append(stdout, [idx |-> idx, start_time |-> chapter.start_time,
                                            title |-> chapter.title])
               /\ UNCHANGED <<pc, stderr, exit_code>>
          ELSE /\ ExceptException("KeyError")
               /\ UNCHANGED stdout
    /\ UNCHANGED <<args, media, chapters, duration, report, dirCreated, start_time, end_time,
                   max_count, rng, visited, calls, files>>

\* line 65: sys.exit(0) after the last chapter
ShowExit ==
    /\ pc = "print"
    /\ Len(stdout) = Len(chapters)
    /\ Exit(0, "", "")
    /\ UNCHANGED <<args, media, chapters, duration, stdout, report, dirCreated, start_time,
                   end_time, max_count, rng, visited, calls, files>>

\* lines 67-68
EnsureDirectory ==
    /\ pc = "mkdir"
    /\ dirCreated' = TRUE
    /\ pc' = "start"
    /\ UNCHANGED <<args, media, chapters, duration, stdout, report, stderr, start_time,
                   end_time, max_count, rng, visited, calls, files, exit_code>>

\* lines 71-73: get_chapter_time(...) or parse_time(args.start_time)
StartTimeOf(chs, a) ==
    LET c == get_chapter_time(chs, a.start_chapter_number, a.start_chapter_name, "start_time")
        p == parse_time(a.start_time)
    IN IF IsRaise(c) THEN c
       ELSE IF IsOk(c) /\ c.val # 0 THEN c
       ELSE IF IsOk(p) THEN Ok(p.val * Den) ELSE p

ResolveStart ==
    /\ pc = "start"
    /\ LET r == StartTimeOf(chapters, args)
       IN IF IsRaise(r)
          THEN ExceptException(r.kind) /\ UNCHANGED start_time
          ELSE start_time' = r /\ pc' = "end" /\ UNCHANGED <<stderr, exit_code>>
    /\ UNCHANGED <<args, media, chapters, duration, stdout, report, dirCreated, end_time,
                   max_count, rng, visited, calls, files>>

\* (variant: a lookup that finds nothing falls back like the start does)
EndTimeOf_FallThrough(chs, dur, a) ==
    LET c == get_chapter_time(chs, a.end_chapter_number, a.end_chapter_name, "end_time")
    IN IF ~IsNone(c) THEN c
       ELSE IF TruthyText(a.end_time)
       THEN LET p == parse_time(a.end_time.val)
            IN IF IsOk(p) THEN Ok(p.val * Den) ELSE p
       ELSE Ok(dur)

\* lines 75-80
EndTimeOf(chs, dur, a) ==
    IF TruthyInt(a.end_chapter_number) \/ TruthyStr(a.end_chapter_name)
    THEN get_chapter_time(chs, a.end_chapter_number, a.end_chapter_name, "end_time")
    ELSE IF TruthyText(a.end_time)
    THEN LET p == parse_time(a.end_time.val)
         IN IF IsOk(p) THEN Ok(p.val * Den) ELSE p
    ELSE Ok(dur)

ResolveEnd ==
    /\ pc = "end"
    /\ LET r == EndTimeOf(chapters, duration, args)
       IN IF IsRaise(r)
          THEN ExceptException(r.kind) /\ UNCHANGED end_time
          ELSE end_time' = r /\ pc' = "count" /\ UNCHANGED <<stderr, exit_code>>
    /\ UNCHANGED <<args, media, chapters, duration, stdout, report, dirCreated, start_time,
                   max_count, rng, visited, calls, files>>

\* lines 83-96: the count, the header, and the range the loop will iterate
CountScreenshots ==
    /\ pc = "count"
    /\ IF IsNone(end_time) \/ args.interval = 0
       THEN \* TypeError at line 83, ZeroDivisionError at line 84
            /\ ExceptException(IF IsNone(end_time) THEN "TypeError" ELSE "ZeroDivisionError")
            /\ UNCHANGED <<max_count, report, rng>>
       ELSE /\ max_count' = MaxCount(start_time.val, end_time.val, args.interval)
            /\ report' = IF args.verbose \/ args.simulate THEN Ok(max_count') ELSE report
            /\ rng' = Schedule(start_time.val, end_time.val, args.interval)
            /\ pc' = "loop"
            /\ UNCHANGED <<stderr, exit_code>>
    /\ UNCHANGED <<args, media, chapters, duration, stdout, dirCreated, start_time, end_time,
                   visited, calls, files>>

\* (variant: the simulate check is missing, the extraction runs)
SimulateStep_Extracts ==
    /\ pc = "loop"
    /\ Len(visited) < Len(rng)
    /\ args.simulate
    /\ LET timestamp == rng[Len(visited) + 1]
           out == out_file(Len(visited) + 1, max_count)
       IN /\ visited' = Append(visited, timestamp)
          /\ calls' = Append(calls, [ss |-> timestamp, out |-> out])
          /\ files' = files \cup {out}
    /\ UNCHANGED <<args, media, pc, chapters, duration, stdout, report, stderr, dirCreated,
                   start_time, end_time, max_count, rng, exit_code>>

\* lines 94-103: the loop yields a timestamp in simulate mode
SimulateStep ==
    /\ pc = "loop"
    /\ Len(visited) < Len(rng)
    /\ args.simulate
    /\ visited' = Append(visited, rng[Len(visited) + 1])
    /\ UNCHANGED <<args, media, pc, chapters, duration, stdout, report, stderr, dirCreated,
                   start_time, end_time, max_count, rng, calls, files, exit_code>>

\* lines 105-121: the extraction call for the next timestamp returns
Extract ==
    /\ pc = "loop"
    /\ Len(visited) < Len(rng)
    /\ ~args.simulate
    /\ LET timestamp == rng[Len(visited) + 1]
           out == out_file(Len(visited) + 1, max_count)
       IN /\ visited' = Append(visited, timestamp)
          /\ calls' = Append(calls, [ss |-> timestamp, out |-> out])
          /\ files' = files \cup {out}
    /\ UNCHANGED <<args, media, pc, chapters, duration, stdout, report, stderr, dirCreated,
                   start_time, end_time, max_count, rng, exit_code>>

\* lines 108-125: the extraction call for the next timestamp raises ffmpeg.Error
ExtractFails ==
    /\ pc = "loop"
    /\ Len(visited) < Len(rng)
    /\ ~args.simulate
    /\ LET timestamp == rng[Len(visited) + 1]
           out == out_file(Len(visited) + 1, max_count)
       IN /\ visited' = Append(visited, timestamp)
          /\ calls' = Append(calls, [ss |-> timestamp, out |-> out])
    /\ ExceptFfmpeg
    /\ UNCHANGED <<args, media, chapters, duration, stdout, report, dirCreated, start_time,
                   end_time, max_count, rng, files>>

\* the range is exhausted: generate_screenshots returns, the process exits 0
Finish ==
    /\ pc = "loop"
    /\ Len(visited) = Len(rng)
    /\ Exit(0, "", "")
    /\ UNCHANGED <<args, media, chapters, duration, stdout, report, dirCreated, start_time,
                   end_time, max_count, rng, visited, calls, files>>

Next ==
    \/ Probe
    \/ ProbeFails
    \/ ShowChapter
    \/ ShowExit
    \/ EnsureDirectory
    \/ ResolveStart
    \/ ResolveEnd
    \/ CountScreenshots
    \/ SimulateStep
    \/ Extract
    \/ ExtractFails
    \/ Finish

Spec == Init /\ [][Next]_vars

(* ======================= properties of the run ========================== *)
\* Both ends of the range are resolved to numbers.
Resolved == pc \in {"count", "loop", "exit"} /\ IsOk(start_time) /\ IsOk(end_time)
\* A resolved range with end > start and a positive interval.
Valid == Resolved /\ end_time.val > start_time.val /\ args.interval > 0
\* The scheduling run has returned normally.
Completed == pc = "exit" /\ exit_code = Ok(0) /\ ~args.print_chapters
Fractional(t) == t % Den # 0
CallTimes == [i \in 1..Len(calls) |-> calls[i].ss]

\* C1: a resolved range with end <= start makes the run end in failure
\* (non-zero exit); it never completes normally.
C1_InvalidRangeFails ==
    (Resolved /\ end_time.val <= start_time.val /\ args.interval > 0 /\ pc = "exit")
        => exit_code = Ok(1)

\* C2: for end > start and interval > 0 the number of timestamps the loop
\* has emitted never exceeds the advertised total max_count.
C2_EmittedAtMostTotal ==
    (Valid /\ pc \in {"loop", "exit"}) => Len(visited) <= max_count
C2_Witness ==
    /\ Valid /\ Completed
    /\ Fractional(start_time.val) /\ Fractional(end_time.val)
    /\ Len(visited) >= 2 /\ Len(visited) < max_count

\* C3 as stated: for end > start and interval > 0 the advertised total
\* exceeds the emitted count by 0 or 1.
C3_TotalExceedsByAtMostOne ==
    (Valid /\ Completed) => (max_count - Len(visited)) \in {0, 1}
\* C3 amended: for end > start and interval > 0 the advertised total
\* exceeds the emitted count by 0, 1 or 2.
C3_TotalExceedsByAtMostTwo ==
    (Valid /\ Completed) => (max_count - Len(visited)) \in {0, 1, 2}
C3_Witness ==
    /\ Valid /\ Completed
    /\ Fractional(start_time.val) /\ Fractional(end_time.val)
    /\ Len(visited) >= 1 /\ max_count - Len(visited) = 2

\* interval > (end - start), in units
IntervalExceedsRange == args.interval * Den > end_time.val - start_time.val
\* C4 as stated: for end > start and interval > end - start the schedule is
\* exactly one entry, at ceil(start).
C4_SingleEntry ==
    (Valid /\ IntervalExceedsRange /\ Completed) => visited = <<ceil(start_time.val)>>
\* C4 amended: for end > start and interval > end - start the schedule is
\* the single entry ceil(start) when ceil(start) < floor(end), and is empty
\* otherwise.
C4_SingleEntryOrEmpty ==
    (Valid /\ IntervalExceedsRange /\ Completed) =>
        visited = IF ceil(start_time.val) < floor(end_time.val)
                  THEN <<ceil(start_time.val)>> ELSE <<>>
C4_Witness ==
    /\ Valid /\ IntervalExceedsRange /\ Completed
    /\ Fractional(start_time.val)
    /\ visited = <<ceil(start_time.val)>>

\* C5: with interval <= 0 the run never reaches the scheduling loop and
\* never completes normally.
C5_NonPositiveIntervalFails ==
    (args.interval <= 0 /\ ~args.print_chapters) =>
        (pc # "loop" /\ ~(pc = "exit" /\ exit_code = Ok(0)))

\* The start selector matches a chapter: an ordinal within the list, or
\* (no ordinal) a title some chapter carries.
StartMatch ==
    IF TruthyInt(args.start_chapter_number)
    THEN args.start_chapter_number.val \in 1..Len(chapters)
    ELSE /\ TruthyStr(args.start_chapter_name)
         /\ \E i \in 1..Len(chapters) :
                chapters[i].has_title /\ chapters[i].title = args.start_chapter_name.val
StartMatchIndex ==
    IF TruthyInt(args.start_chapter_number)
    THEN args.start_chapter_number.val
    ELSE CHOOSE i \in 1..Len(chapters) :
            /\ chapters[i].has_title /\ chapters[i].title = args.start_chapter_name.val
            /\ \A j \in 1..(i - 1) :
                ~(chapters[j].has_title /\ chapters[j].title = args.start_chapter_name.val)
\* C6: once start resolution has run and the start selector matches a
\* chapter, the resolved start is that chapter's start_time.
C6_ChapterStartWins ==
    (dirCreated /\ pc # "start" /\ StartMatch)
        => start_time = Ok(chapters[StartMatchIndex].start_time)

\* C7: a --print-chapters run whose probe succeeded never creates the output
\* directory, never issues an extraction call, and ends with exit code 0
\* after printing one line per chapter.
C7_ChapterListingOnly ==
    (args.print_chapters /\ stderr.prefix # "ffmpeg error") =>
        /\ ~dirCreated
        /\ calls = <<>>
        /\ pc = "exit" => (exit_code = Ok(0) /\ Len(stdout) = Len(chapters))

\* C8: extraction calls are issued in increasing timestamp order, and after
\* a failed call the run has exit code 1, no later call was issued, and the
\* files of the earlier calls are in place.
C8_SequentialAbort ==
    /\ \A i \in 1..Len(calls) : \A j \in 1..Len(calls) : i < j => calls[i].ss < calls[j].ss
    /\ (stderr.prefix = "ffmpeg error" /\ calls # <<>>) =>
        /\ exit_code = Ok(1)
        /\ files = {calls[i].out : i \in 1..(Len(calls) - 1)}

\* C9: in simulate mode no extraction call is issued and no image file is
\* written; on a valid range and interval the simulated run ends normally
\* having iterated the whole schedule, the same timestamps a completed
\* non-simulate run extracts.
C9_SimulateNoSideEffects ==
    /\ args.simulate => (calls = <<>> /\ files = {})
    /\ (Valid /\ pc = "exit") =>
        LET sched == Schedule(start_time.val, end_time.val, args.interval)
        IN /\ args.simulate => (exit_code = Ok(0) /\ visited = sched)
           /\ (~args.simulate /\ exit_code = Ok(0)) =>
                (CallTimes = sched /\ Cardinality(files) = Len(sched))
C9_Witness ==
    /\ args.simulate /\ Valid /\ Completed
    /\ Len(visited) >= 2 /\ calls = <<>> /\ files = {} /\ dirCreated

\* A title selector (no ordinal) that equals no chapter's title.
Unmatched(num, name) ==
    /\ ~TruthyInt(num) /\ TruthyStr(name)
    /\ \A i \in 1..Len(chapters) : chapters[i].has_title => chapters[i].title # name.val
StartUnmatched == Unmatched(args.start_chapter_number, args.start_chapter_name)
EndUnmatched == Unmatched(args.end_chapter_number, args.end_chapter_name)
LiteralStart == parse_time(args.start_time)
\* C10 as stated: an unmatched title selector falls through, on the start
\* side to the literal start, on the end side to the end literal or the
\* duration.
C10_UnmatchedFallsThrough ==
    /\ (StartUnmatched /\ pc = "end") => start_time = Ok(LiteralStart.val * Den)
    /\ (EndUnmatched /\ pc = "count") =>
        end_time = IF TruthyText(args.end_time)
                   THEN Ok(parse_time(args.end_time.val).val * Den) ELSE Ok(duration)
\* C10 amended: an unmatched title selector falls through to the literal on
\* the start side only (the lookup raises only on a chapter without title);
\* on the end side nothing is substituted: end_time is None and the run ends
\* with exit code 1 before the loop, without any extraction call.
C10_StartFallsThroughEndFails ==
    /\ (StartUnmatched /\ pc = "end") => start_time = Ok(LiteralStart.val * Den)
    /\ (StartUnmatched /\ \A i \in 1..Len(chapters) : chapters[i].has_title) =>
        stderr.exc # "KeyError"
    /\ (EndUnmatched /\ ~args.print_chapters) =>
        /\ pc # "loop" /\ calls = <<>>
        /\ pc = "count" => end_time = NoneV
        /\ pc = "exit" => exit_code = Ok(1)
C10_Witness ==
    /\ StartUnmatched /\ EndUnmatched /\ chapters # <<>>
    /\ pc = "exit" /\ stderr.exc = "TypeError" /\ exit_code = Ok(1)
    /\ start_time = Ok(LiteralStart.val * Den) /\ end_time = NoneV /\ calls = <<>>

====
